---- MODULE Spec2Model ----
(***************************************************************************)
(* Spotify-to-YouTube playlist converter (main.py).                        *)
(*                                                                         *)
(* The program is one sequential pipeline, main(): fetch the Spotify       *)
(* playlist page by page, authenticate with YouTube, search one video per  *)
(* track, ask the user, create a YouTube playlist, insert the videos.      *)
(* The two services, the token file and the user are the environment:      *)
(* every call to them is one step whose outcome (a page, a result list, an *)
(* error) is chosen nondeterministically.                                  *)
(*                                                                         *)
(* Python's None is the empty sequence <<>> and a present value v is <<v>> *)
(* wherever a variable can hold either.  Strings are sequences of          *)
(* one-character strings, so that lower() and "in" are computed.           *)
(***************************************************************************)
EXTENDS Integers, Sequences, FiniteSets, TLC

\* ---------------------------------------------------------------- bounds
\* get_playlist_tracks alone: pages in the chain, items on a page
MaxPages == 2
MaxPageLen == 2
\* a run of main: items in the playlist, items the API serves per page
MainMaxItems == 2
MainPageSize == 1
\* find_youtube_matches alone: items the track list is built from
MaxTracks == 3
\* results one search returns (max_results, 5 in the program)
MaxResults == 2
\* add_videos_to_playlist alone: length of video_ids
MaxVideos == 3

\* ------------------------------------------------------- strings (str)
None == <<>>
Some(v) == <<v>>

\* str.lower() on the characters the model uses
Lower(c) ==
  CASE c = "A" -> "a"
    [] c = "B" -> "b"
    [] c = "C" -> "c"
    [] c = "Y" -> "y"
    [] OTHER -> c

LowerStr(s) == [k \in 1..Len(s) |-> Lower(s[k])]

\* Python's  s in t  on strings: s occurs in t as a contiguous block
IsSubstring(s, t) ==
  \E k \in 0..(Len(t) - Len(s)) : SubSeq(t, k + 1, k + Len(s)) = s

\* ------------------------------------------------- the data the services hold
\* Spotify track objects (item['track']); only the fields main.py reads later
SpotifyTracks ==
  { [name |-> <<"A", "b">>, artists |-> << <<"C">> >>],
    [name |-> <<"c", "c">>, artists |-> << <<"B">>, <<"x">> >>] }

\* a playlist item: its 'track' is a track object or None
Items == { [track |-> None] } \cup { [track |-> Some(t)] : t \in SpotifyTracks }

\* YouTube search results as search_youtube builds them
Videos ==
  { [video_id |-> "v1", title |-> <<"a", "B", "x">>],
    [video_id |-> "v2", title |-> <<"x", "c">>],
    [video_id |-> "v3", title |-> <<"x">>] }

VideoIdSet == { v.video_id : v \in Videos }

PlaylistIds == { "PL1", "PL2" }

\* the id YouTube gives the playlist this run creates
NewPlaylistIds == { "PL1" }

\* what the user may type at the (y/n) prompt
Answers == { <<"y">>, <<"Y">>, <<"n">>, <<>>, <<"y", "e", "s">> }

\* sequences over S of length at most n
SeqsUpTo(S, n) == UNION { [1..k -> S] : k \in 0..n }

RECURSIVE Concat(_)
Concat(pages) ==
  IF pages = <<>> THEN <<>> ELSE Head(pages) \o Concat(Tail(pages))

\* a playlist as the Spotify API serves it: a non-empty chain of pages
Chains(maxPages, maxPageLen) ==
  { c \in SeqsUpTo(SeqsUpTo(Items, maxPageLen), maxPages) : Len(c) >= 1 }

VARIABLES
  pc,            \* position in main / in the function main is calling
  exit,          \* how main ended ("none" while running)
  stages,        \* the pipeline stages entered so far, in order
  playlist,      \* Spotify: the playlist's chain of pages
  results,       \* get_playlist_tracks: index of the page held in results
  tracks,        \* get_playlist_tracks: items accumulated so far
  track_list,    \* get_playlist_tracks's return value (main's tracks), or None
  tokenFile,     \* youtube_token.pickle: None (absent) or the pickled creds
  clientSecret,  \* client_secret.json exists
  creds,         \* get_youtube_service: creds
  loaded,        \* what pickle.load returned in this call (None if no file)
  authLog,       \* refresh / login flow / token-file writes of this call
  youtube,       \* main's youtube: "unset", "none" or "service"
  track_i,       \* find_youtube_matches: position of the for loop in tracks
  matches,       \* find_youtube_matches: matches
  not_found,     \* find_youtube_matches: not_found
  searchLog,     \* every search issued: query, outcome and first result
  create,        \* the user's answer, or None before the prompt
  yt_playlist_id,\* main's yt_playlist_id
  ytCreated,     \* YouTube: playlists created in this run
  video_ids,     \* add_videos_to_playlist: video_ids
  video_i,       \* add_videos_to_playlist: position of the for loop in video_ids
  added,         \* add_videos_to_playlist: added
  failed,        \* add_videos_to_playlist: failed
  add_result,    \* add_videos_to_playlist's return value, or None before it returns
  insertLog,     \* every insert attempted: video id, playlist id, outcome
  ytItems        \* YouTube: the video ids each playlist holds, in insertion order

fetchVars == <<playlist, results, tracks, track_list>>
authVars == <<tokenFile, clientSecret, creds, loaded, authLog, youtube>>
matchVars == <<track_i, matches, not_found, searchLog>>
createVars == <<create, yt_playlist_id, ytCreated>>
addVars == <<video_ids, video_i, added, failed, add_result, insertLog, ytItems>>
vars == <<pc, exit, stages, fetchVars, authVars, matchVars, createVars, addVars>>

\* ------------------------------------------------ get_playlist_tracks
\* the for loop of get_playlist_tracks: enumerate(tracks, 1), skip None
RECURSIVE TrackListFrom(_, _)
TrackListFrom(items, index) ==
  IF items = <<>> THEN <<>>
  ELSE LET item == Head(items)
           rest == TrackListFrom(Tail(items), index + 1)
       IN IF item.track = None THEN rest
          ELSE LET track == item.track[1]
               IN << [number |-> index,
                      name |-> track.name,
                      artist |-> track.artists[1]] >> \o rest

TrackListCounted(items) == TrackListFrom(items, 0)

TrackList(items) == TrackListFrom(items, 1)

\* results['next'] is set on every page but the last
HasNext(chain, page) == page < Len(chain)

\* sp.playlist and sp.playlist_tracks answered: the first page is held
FetchFirstPage ==
  /\ pc = "fetch"
  /\ results' = 1
  /\ tracks' = playlist[1]
  /\ stages' = Append(stages, "Fetch")
  /\ pc' = "paging"
  /\ UNCHANGED <<exit, playlist, track_list, authVars, matchVars, createVars, addVars>>

\* while results['next']: results = sp.next(results); tracks.extend(...)
FetchNextPage ==
  /\ pc = "paging"
  /\ HasNext(playlist, results)
  /\ results' = results + 1
  /\ tracks' = tracks \o playlist[results + 1]
  /\ UNCHANGED <<pc, exit, stages, playlist, track_list, authVars, matchVars,
                 createVars, addVars>>

\* the loop ended: build track_list and return it
FetchReturn ==
  /\ pc = "paging"
  /\ ~HasNext(playlist, results)
  /\ track_list' = Some(TrackList(tracks))
  /\ pc' = "fetched"
  /\ UNCHANGED <<exit, stages, playlist, results, tracks, authVars, matchVars,
                 createVars, addVars>>

\* a Spotify call raised: both except clauses return None, None
FetchError ==
  /\ \/ pc = "fetch" /\ stages' = Append(stages, "Fetch")
     \/ pc = "paging" /\ HasNext(playlist, results) /\ UNCHANGED stages
  /\ track_list' = None
  /\ pc' = "fetched"
  /\ UNCHANGED <<exit, playlist, results, tracks, authVars, matchVars,
                 createVars, addVars>>

\* main: if not tracks: return   (None and the empty list are both falsy)
MainCheckTracks ==
  /\ pc = "fetched"
  /\ IF track_list = None \/ track_list = Some(<<>>)
       THEN pc' = "done" /\ exit' = "fetch_failed"
       ELSE pc' = "auth" /\ exit' = exit
  /\ UNCHANGED <<stages, fetchVars, authVars, matchVars, createVars, addVars>>

\* ------------------------------------------------ get_youtube_service
\* the attributes of a google Credentials object that the function reads
CredsSet ==
  { c \in [valid : BOOLEAN, expired : BOOLEAN, refresh_token : BOOLEAN] :
      ~(c.valid /\ c.expired) }

\* creds.refresh(Request()) succeeded: a fresh access token
Refreshed(c) == [c EXCEPT !.valid = TRUE, !.expired = FALSE]

\* what flow.run_local_server can hand back: valid, with or without a refresh token
FlowCreds == { c \in CredsSet : c.valid }

NoAuthLog == [refreshes |-> 0, flows |-> 0, writes |-> 0]

\* if not creds or not creds.valid
NeedsCredentials(c) == IF c = None THEN TRUE ELSE ~c[1].valid

\* if creds and creds.expired and creds.refresh_token
CanRefresh(c) == IF c = None THEN FALSE ELSE c[1].expired /\ c[1].refresh_token

\* if os.path.exists('youtube_token.pickle'): creds = pickle.load(token)
AuthLoad ==
  /\ pc = "auth"
  /\ creds' = tokenFile
  /\ loaded' = tokenFile
  /\ stages' = Append(stages, "Auth")
  /\ pc' = "auth_loaded"
  /\ UNCHANGED <<exit, fetchVars, tokenFile, clientSecret, authLog, youtube,
                 matchVars, createVars, addVars>>

\* the cached credentials are valid: straight to build()
AuthCachedSaves ==
  /\ pc = "auth_loaded"
  /\ ~NeedsCredentials(creds)
  /\ pc' = "auth_save"
  /\ UNCHANGED <<exit, stages, fetchVars, authVars, matchVars, createVars, addVars>>

AuthCached ==
  /\ pc = "auth_loaded"
  /\ ~NeedsCredentials(creds)
  /\ pc' = "auth_build"
  /\ UNCHANGED <<exit, stages, fetchVars, authVars, matchVars, createVars, addVars>>

\* creds.refresh(Request()) returned
AuthRefresh ==
  /\ pc = "auth_loaded"
  /\ NeedsCredentials(creds)
  /\ CanRefresh(creds)
  /\ creds' = Some(Refreshed(creds[1]))
  /\ authLog' = [authLog EXCEPT !.refreshes = @ + 1]
  /\ pc' = "auth_save"
  /\ UNCHANGED <<exit, stages, fetchVars, tokenFile, clientSecret, loaded, youtube,
                 matchVars, createVars, addVars>>

\* creds.refresh raised (revoked token, no network): nothing catches it
AuthRefreshError ==
  /\ pc = "auth_loaded"
  /\ NeedsCredentials(creds)
  /\ CanRefresh(creds)
  /\ authLog' = [authLog EXCEPT !.refreshes = @ + 1]
  /\ pc' = "done"
  /\ exit' = "crashed"
  /\ UNCHANGED <<stages, fetchVars, tokenFile, clientSecret, creds, loaded, youtube,
                 matchVars, createVars, addVars>>

\* client_secret.json is missing: return None
AuthNoSecret ==
  /\ pc = "auth_loaded"
  /\ NeedsCredentials(creds)
  /\ ~CanRefresh(creds)
  /\ ~clientSecret
  /\ youtube' = "none"
  /\ pc' = "authed"
  /\ UNCHANGED <<exit, stages, fetchVars, tokenFile, clientSecret, creds, loaded,
                 authLog, matchVars, createVars, addVars>>

\* flow.run_local_server(port=8080) returned credentials
AuthLogin ==
  /\ pc = "auth_loaded"
  /\ NeedsCredentials(creds)
  /\ ~CanRefresh(creds)
  /\ clientSecret
  /\ \E c \in FlowCreds : creds' = Some(c)
  /\ authLog' = [authLog EXCEPT !.flows = @ + 1]
  /\ pc' = "auth_save"
  /\ UNCHANGED <<exit, stages, fetchVars, tokenFile, clientSecret, loaded, youtube,
                 matchVars, createVars, addVars>>

\* the login flow raised (consent denied, port taken): nothing catches it
AuthLoginError ==
  /\ pc = "auth_loaded"
  /\ NeedsCredentials(creds)
  /\ ~CanRefresh(creds)
  /\ clientSecret
  /\ authLog' = [authLog EXCEPT !.flows = @ + 1]
  /\ pc' = "done"
  /\ exit' = "crashed"
  /\ UNCHANGED <<stages, fetchVars, tokenFile, clientSecret, creds, loaded, youtube,
                 matchVars, createVars, addVars>>

\* with open('youtube_token.pickle', 'wb') as token: pickle.dump(creds, token)
AuthSave ==
  /\ pc = "auth_save"
  /\ tokenFile' = creds
  /\ authLog' = [authLog EXCEPT !.writes = @ + 1]
  /\ pc' = "auth_build"
  /\ UNCHANGED <<exit, stages, fetchVars, clientSecret, creds, loaded, youtube,
                 matchVars, createVars, addVars>>

\* return build('youtube', 'v3', credentials=creds)
AuthBuild ==
  /\ pc = "auth_build"
  /\ youtube' = "service"
  /\ pc' = "authed"
  /\ UNCHANGED <<exit, stages, fetchVars, tokenFile, clientSecret, creds, loaded,
                 authLog, matchVars, createVars, addVars>>

\* main: if not youtube: return; otherwise call find_youtube_matches
MainCheckYoutube ==
  /\ pc = "authed"
  /\ IF youtube = "none"
       THEN pc' = "done" /\ exit' = "auth_failed" /\ stages' = stages
       ELSE pc' = "match" /\ exit' = exit /\ stages' = Append(stages, "Search")
  /\ UNCHANGED <<fetchVars, authVars, matchVars, createVars, addVars>>

\* ------------------------------------------------ find_youtube_matches
\* query = f"{track['artist']} {track['name']}"
Query(track) == track.artist \o <<" ">> \o track.name

\* if track_lower in title_lower or artist_lower in title_lower
RelevanceCheck(track, best_match) ==
  \/ IsSubstring(LowerStr(track.name), LowerStr(best_match.title))
  \/ IsSubstring(LowerStr(track.artist), LowerStr(best_match.title))

\* best_match = results[0]
BestMatchLast(res) == res[Len(res)]

BestMatch(res) == res[1]

\* the dict appended to matches, in either branch of the relevance check
MatchEntry(track, best_match) ==
  [track |-> track,
   youtube |-> best_match,
   confidence |-> IF RelevanceCheck(track, best_match) THEN "high" ELSE "low"]

\* matches after one iteration of the loop body
MatchesAfterHighOnly(ms, track, res) ==
  IF res # <<>> /\ RelevanceCheck(track, BestMatch(res))
    THEN Append(ms, MatchEntry(track, BestMatch(res)))
    ELSE ms

MatchesAfter(ms, track, res) ==
  IF res # <<>> THEN Append(ms, MatchEntry(track, BestMatch(res))) ELSE ms

\* not_found after one iteration of the loop body
NotFoundAfter(nf, track, res) ==
  IF res # <<>> THEN nf ELSE Append(nf, track)

\* one iteration whose search_youtube call returned the list res
SearchStep(res, outcome) ==
  LET track == track_list[1][track_i]
  IN /\ matches' = MatchesAfter(matches, track, res)
     /\ not_found' = NotFoundAfter(not_found, track, res)
     /\ searchLog' = Append(searchLog,
                            [query |-> Query(track),
                             outcome |-> outcome,
                             first |-> IF res = <<>> THEN None ELSE Some(res[1])])
     /\ track_i' = track_i + 1

\* search().list(...).execute() answered with up to max_results items
SearchTrack ==
  /\ pc = "match"
  /\ track_i <= Len(track_list[1])
  /\ \E res \in SeqsUpTo(Videos, MaxResults) :
       SearchStep(res, IF res = <<>> THEN "empty" ELSE "hit")
  /\ UNCHANGED <<pc, exit, stages, fetchVars, authVars, createVars, addVars>>

\* the search raised: search_youtube prints the error and returns []
SearchError ==
  /\ pc = "match"
  /\ track_i <= Len(track_list[1])
  /\ SearchStep(<<>>, "error")
  /\ UNCHANGED <<pc, exit, stages, fetchVars, authVars, createVars, addVars>>

\* the for loop is exhausted: return matches, not_found
MatchReturn ==
  /\ pc = "match"
  /\ track_i > Len(track_list[1])
  /\ pc' = "matched"
  /\ UNCHANGED <<exit, stages, fetchVars, authVars, matchVars, createVars, addVars>>

\* main: if not matches: return
MainCheckMatches ==
  /\ pc = "matched"
  /\ IF matches = <<>>
       THEN pc' = "done" /\ exit' = "no_matches"
       ELSE pc' = "confirm" /\ exit' = exit
  /\ UNCHANGED <<stages, fetchVars, authVars, matchVars, createVars, addVars>>

\* ------------------------------------------------ main: confirm and create
\* create.lower() != 'y' cancels
DeclinedNever(answer) == FALSE

Declined(answer) == LowerStr(answer) # <<"y">>

\* create = input("Create YouTube playlist with ... videos? (y/n): ")
Confirm ==
  /\ pc = "confirm"
  /\ \E answer \in Answers :
       /\ create' = Some(answer)
       /\ IF Declined(answer)
            THEN pc' = "done" /\ exit' = "declined"
            ELSE pc' = "create" /\ exit' = exit
  /\ stages' = Append(stages, "Confirm")
  /\ UNCHANGED <<fetchVars, authVars, matchVars, yt_playlist_id, ytCreated, addVars>>

\* create_youtube_playlist: playlists().insert(...).execute() returned an id
CreatePlaylist ==
  /\ pc = "create"
  /\ \E id \in NewPlaylistIds : yt_playlist_id' = Some(id)
  /\ ytCreated' = ytCreated + 1
  /\ stages' = Append(stages, "Create")
  /\ pc' = "created"
  /\ UNCHANGED <<exit, fetchVars, authVars, matchVars, create, addVars>>

\* create_youtube_playlist: the request raised, the function returns None
CreateError ==
  /\ pc = "create"
  /\ yt_playlist_id' = None
  /\ stages' = Append(stages, "Create")
  /\ pc' = "created"
  /\ UNCHANGED <<exit, fetchVars, authVars, matchVars, create, ytCreated, addVars>>

\* video_ids = [match['youtube']['video_id'] for match in matches]
VideoIdsReversed(ms) == [k \in 1..Len(ms) |-> ms[Len(ms) + 1 - k].youtube.video_id]

VideoIds(ms) == [k \in 1..Len(ms) |-> ms[k].youtube.video_id]

\* main: if not yt_playlist_id: return; otherwise call add_videos_to_playlist
MainCheckCreated ==
  /\ pc = "created"
  /\ IF yt_playlist_id = None
       THEN /\ pc' = "done"
            /\ exit' = "create_failed"
            /\ UNCHANGED <<stages, video_ids>>
       ELSE /\ pc' = "add"
            /\ exit' = exit
            /\ stages' = Append(stages, "Insert")
            /\ video_ids' = VideoIds(matches)
  /\ UNCHANGED <<fetchVars, authVars, matchVars, createVars, video_i, added, failed,
                 add_result, insertLog, ytItems>>

\* ------------------------------------------------ add_videos_to_playlist
\* playlistItems().insert(...).execute() returned: added += 1
InsertVideo ==
  /\ pc = "add"
  /\ video_i <= Len(video_ids)
  /\ ytItems' = [ytItems EXCEPT ![yt_playlist_id[1]] = Append(@, video_ids[video_i])]
  /\ added' = added + 1
  /\ insertLog' = Append(insertLog, [video_id |-> video_ids[video_i],
                                     playlist_id |-> yt_playlist_id[1],
                                     ok |-> TRUE])
  /\ video_i' = video_i + 1
  /\ UNCHANGED <<pc, exit, stages, fetchVars, authVars, matchVars, createVars,
                 video_ids, failed, add_result>>

\* the insert raised: failed += 1 and the loop goes on
InsertErrorStops ==
  /\ pc = "add"
  /\ video_i <= Len(video_ids)
  /\ failed' = failed + 1
  /\ insertLog' = Append(insertLog, [video_id |-> video_ids[video_i],
                                     playlist_id |-> yt_playlist_id[1],
                                     ok |-> FALSE])
  /\ video_i' = Len(video_ids) + 1
  /\ UNCHANGED <<pc, exit, stages, fetchVars, authVars, matchVars, createVars,
                 video_ids, added, add_result, ytItems>>

InsertError ==
  /\ pc = "add"
  /\ video_i <= Len(video_ids)
  /\ failed' = failed + 1
  /\ insertLog' = Append(insertLog, [video_id |-> video_ids[video_i],
                                     playlist_id |-> yt_playlist_id[1],
                                     ok |-> FALSE])
  /\ video_i' = video_i + 1
  /\ UNCHANGED <<pc, exit, stages, fetchVars, authVars, matchVars, createVars,
                 video_ids, added, add_result, ytItems>>

\* the for loop is exhausted: return added
AddReturn ==
  /\ pc = "add"
  /\ video_i > Len(video_ids)
  /\ add_result' = Some(added)
  /\ pc' = "added"
  /\ UNCHANGED <<exit, stages, fetchVars, authVars, matchVars, createVars,
                 video_ids, video_i, added, failed, insertLog, ytItems>>

\* main: print the summary ("CONVERSION COMPLETE!") and end
MainReport ==
  /\ pc = "added"
  /\ stages' = Append(stages, "Report")
  /\ pc' = "done"
  /\ exit' = "complete"
  /\ UNCHANGED <<fetchVars, authVars, matchVars, createVars, addVars>>

\* ------------------------------------------------ specifications
\* the values every run starts with, whatever the environment holds
InitLocals ==
  /\ exit = "none"
  /\ stages = <<>>
  /\ creds = None
  /\ loaded = None
  /\ authLog = NoAuthLog
  /\ track_i = 1
  /\ matches = <<>>
  /\ not_found = <<>>
  /\ searchLog = <<>>
  /\ create = None
  /\ video_i = 1
  /\ added = 0
  /\ failed = 0
  /\ add_result = None
  /\ insertLog = <<>>
  /\ ytItems = [p \in PlaylistIds |-> <<>>]

TokenFiles == { None } \cup { Some(c) : c \in CredsSet }

\* the token file and client secret a run of the whole pipeline is started with:
\* first run without and with client_secret.json, expired token, valid token
MainAuthFiles ==
  { <<None, FALSE>>,
    <<None, TRUE>>,
    <<Some([valid |-> FALSE, expired |-> TRUE, refresh_token |-> TRUE]), FALSE>>,
    <<Some([valid |-> TRUE, expired |-> FALSE, refresh_token |-> TRUE]), FALSE>> }

AllAuthFiles == TokenFiles \X BOOLEAN

\* the items served MainPageSize to a page, as the API does with its page limit
RECURSIVE Paged(_, _)
Paged(items, size) ==
  IF Len(items) <= size THEN <<items>>
  ELSE <<SubSeq(items, 1, size)>> \o Paged(SubSeq(items, size + 1, Len(items)), size)

MainChains == { Paged(items, MainPageSize) : items \in SeqsUpTo(Items, MainMaxItems) }

InitMain(chains, authFiles) ==
  /\ InitLocals
  /\ pc = "fetch"
  /\ playlist \in chains
  /\ results = 0
  /\ tracks = <<>>
  /\ track_list = None
  /\ \E files \in authFiles : tokenFile = files[1] /\ clientSecret = files[2]
  /\ youtube = "unset"
  /\ yt_playlist_id = None
  /\ ytCreated = 0
  /\ video_ids = <<>>

\* main(), from the prompt for the playlist URL to its return
Init == InitMain(MainChains, MainAuthFiles)

NextFetch ==
  \/ FetchFirstPage
  \/ FetchNextPage
  \/ FetchReturn
  \/ FetchError

NextAuth ==
  \/ AuthLoad
  \/ AuthCached
  \/ AuthRefresh
  \/ AuthRefreshError
  \/ AuthNoSecret
  \/ AuthLogin
  \/ AuthLoginError
  \/ AuthSave
  \/ AuthBuild

NextMatch ==
  \/ SearchTrack
  \/ SearchError
  \/ MatchReturn

NextAdd ==
  \/ InsertVideo
  \/ InsertError
  \/ AddReturn

Next ==
  \/ NextFetch
  \/ MainCheckTracks
  \/ NextAuth
  \/ MainCheckYoutube
  \/ NextMatch
  \/ MainCheckMatches
  \/ Confirm
  \/ CreatePlaylist
  \/ CreateError
  \/ MainCheckCreated
  \/ NextAdd
  \/ MainReport

Spec == Init /\ [][Next]_vars

\* get_playlist_tracks alone, on every chain of pages within the bounds
InitFetch == InitMain(Chains(MaxPages, MaxPageLen), { <<None, FALSE>> })

SpecFetch == InitFetch /\ [][NextFetch]_vars

\* main() up to the return of get_youtube_service, on every token file
InitAuth == InitMain(MainChains, AllAuthFiles)

NextUpToAuth ==
  \/ NextFetch
  \/ MainCheckTracks
  \/ NextAuth

SpecAuth == InitAuth /\ [][NextUpToAuth]_vars

\* find_youtube_matches alone, called with a track list of up to MaxTracks items
InitMatch ==
  /\ InitLocals
  /\ pc = "match"
  /\ \E items \in SeqsUpTo(Items, MaxTracks) :
       /\ playlist = <<items>>
       /\ tracks = items
       /\ track_list = Some(TrackList(items))
  /\ results = 1
  /\ tokenFile = None
  /\ clientSecret = FALSE
  /\ youtube = "service"
  /\ yt_playlist_id = None
  /\ ytCreated = 0
  /\ video_ids = <<>>

SpecMatch == InitMatch /\ [][NextMatch]_vars

\* add_videos_to_playlist alone, called with any list of up to MaxVideos ids
InitAdd ==
  /\ InitLocals
  /\ pc = "add"
  /\ playlist = << <<>> >>
  /\ tracks = <<>>
  /\ track_list = Some(<<>>)
  /\ results = 1
  /\ tokenFile = None
  /\ clientSecret = FALSE
  /\ youtube = "service"
  /\ yt_playlist_id \in { Some(id) : id \in PlaylistIds }
  /\ ytCreated = 1
  /\ video_ids \in SeqsUpTo(VideoIdSet, MaxVideos)

SpecAdd == InitAdd /\ [][NextAdd]_vars

\* ------------------------------------------------ properties
IsPrefix(s, t) == Len(s) <= Len(t) /\ SubSeq(t, 1, Len(s)) = s

Range(s) == { s[k] : k \in 1..Len(s) }

StageOrder == <<"Fetch", "Auth", "Search", "Confirm", "Create", "Insert", "Report">>

NoItemsAnywhere == \A p \in PlaylistIds : ytItems[p] = <<>>

\* C1: in every run of main the stages happen at most once each and in the
\* order Fetch, Auth, Search, Confirm, Create, Insert, Report; a playlist is
\* created at most once, and only after the fetch returned tracks, a service
\* was returned, at least one match was found and the user typed y or Y;
\* items are inserted only after a playlist id was returned; no early exit
\* inserts an item, and the exits before creation create no playlist.
C1_PipelineOrder ==
  /\ IsPrefix(stages, StageOrder)
  /\ ytCreated <= 1
  /\ ("Create" \in Range(stages) \/ ytCreated > 0) =>
       /\ track_list # None
       /\ track_list # Some(<<>>)
       /\ youtube = "service"
       /\ matches # <<>>
       /\ create \in { Some(<<"y">>), Some(<<"Y">>) }
  /\ (insertLog # <<>> \/ "Insert" \in Range(stages)) =>
       /\ yt_playlist_id # None
       /\ ytCreated = 1
  /\ exit \in { "fetch_failed", "auth_failed", "no_matches", "declined", "create_failed" } =>
       /\ insertLog = <<>>
       /\ NoItemsAnywhere
  /\ exit \in { "fetch_failed", "auth_failed", "no_matches", "declined" } =>
       /\ ytCreated = 0
       /\ "Create" \notin Range(stages)

C1_Witness ==
  /\ exit = "complete"
  /\ stages = StageOrder
  /\ create = Some(<<"Y">>)
  /\ ~NoItemsAnywhere

\* the video ids of the inserts that succeeded, in the order of the attempts
RECURSIVE Succeeded(_)
Succeeded(log) ==
  IF log = <<>> THEN <<>>
  ELSE (IF Head(log).ok THEN <<Head(log).video_id>> ELSE <<>>) \o Succeeded(Tail(log))

\* the first result of every search that returned results, in search order
RECURSIVE HitVideos(_)
HitVideos(log) ==
  IF log = <<>> THEN <<>>
  ELSE (IF Head(log).first # None THEN <<Head(log).first[1].video_id>> ELSE <<>>)
       \o HitVideos(Tail(log))

\* C2 as stated: at CONVERSION COMPLETE the created playlist holds exactly one
\* video for every track of the source playlist, in the source's order.
C2_OneVideoPerTrack ==
  exit = "complete" =>
    LET source == TrackList(Concat(playlist))
        held == ytItems[yt_playlist_id[1]]
    IN /\ Len(held) = Len(source)
       /\ Len(matches) = Len(source)
       /\ \A k \in 1..Len(source) :
            /\ matches[k].track = source[k]
            /\ held[k] = matches[k].youtube.video_id

\* C2 amended: at CONVERSION COMPLETE the created playlist holds, in the
\* source's order, the first search result of exactly those tracks whose
\* search returned a result and whose insert succeeded: at most one video per
\* track, none for a track without results or with a failed insert.
C2_HoldsInsertedMatches ==
  exit = "complete" =>
    LET source == TrackList(Concat(playlist))
        held == ytItems[yt_playlist_id[1]]
    IN /\ track_list = Some(source)
       /\ Len(searchLog) = Len(source)
       /\ \A k \in 1..Len(source) : searchLog[k].query = Query(source[k])
       /\ Len(insertLog) = Len(HitVideos(searchLog))
       /\ \A m \in 1..Len(insertLog) : insertLog[m].video_id = HitVideos(searchLog)[m]
       /\ held = Succeeded(insertLog)
       /\ Len(held) <= Len(source)
       /\ \A p \in PlaylistIds \ { yt_playlist_id[1] } : ytItems[p] = <<>>

C2_Witness ==
  /\ exit = "complete"
  /\ Len(track_list[1]) = 2
  /\ not_found = <<track_list[1][1]>>
  /\ ytItems[yt_playlist_id[1]] = <<matches[1].youtube.video_id>>

\* C3 as stated: a search result is passed to add_videos_to_playlist, and
\* inserted, only if the lower-cased track name or the lower-cased primary
\* artist is a substring of its lower-cased title.
C3_OnlyAcceptedInserted ==
  \A k \in 1..Len(insertLog) :
    /\ k <= Len(matches)
    /\ insertLog[k].video_id = matches[k].youtube.video_id
    /\ RelevanceCheck(matches[k].track, matches[k].youtube)

\* C3 amended: the substring check only labels a match.  The first result of
\* every track whose search returned results is passed to
\* add_videos_to_playlist whether or not the check holds; the match has
\* confidence "high" exactly when the check holds and "low" otherwise.
C3_CheckOnlyLabels ==
  /\ \A k \in 1..Len(matches) :
       matches[k].confidence =
         (IF \/ IsSubstring(LowerStr(matches[k].track.name),
                            LowerStr(matches[k].youtube.title))
             \/ IsSubstring(LowerStr(matches[k].track.artist),
                            LowerStr(matches[k].youtube.title))
            THEN "high" ELSE "low")
  /\ "Insert" \in Range(stages) =>
       /\ video_ids = HitVideos(searchLog)
       /\ Len(video_ids) = Len(matches)
  /\ \A k \in 1..Len(insertLog) :
       /\ k <= Len(video_ids)
       /\ insertLog[k].video_id = video_ids[k]

C3_Witness ==
  /\ exit = "complete"
  /\ \E k \in 1..Len(insertLog) :
       /\ insertLog[k].ok
       /\ matches[k].confidence = "low"
       /\ insertLog[k].video_id \in Range(ytItems[yt_playlist_id[1]])

\* C4: when get_playlist_tracks returns a track list, the paging loop has
\* stopped at the page whose next is empty, and the list holds, in page
\* order, exactly one entry for every item of every page whose track is not
\* None, each numbered with the 1-based position of its item in the
\* concatenation of all pages (None items counted).
C4_FetchAllTracks ==
  (pc = "fetched" /\ track_list # None) =>
    LET all == Concat(playlist)
        tl == track_list[1]
    IN /\ results = Len(playlist)
       /\ tracks = all
       /\ Len(tl) = Cardinality({ k \in 1..Len(all) : all[k].track # None })
       /\ \A j \in 1..Len(tl) :
            /\ tl[j].number \in 1..Len(all)
            /\ all[tl[j].number].track # None
            /\ tl[j].name = all[tl[j].number].track[1].name
            /\ tl[j].artist = all[tl[j].number].track[1].artists[1]
       /\ \A j \in 1..(Len(tl) - 1) : tl[j].number < tl[j + 1].number

C4_Witness ==
  /\ pc = "fetched"
  /\ track_list # None
  /\ Len(playlist) = 2
  /\ Len(playlist[1]) = 2
  /\ playlist[1][1].track = None
  /\ Len(track_list[1]) = 2
  /\ track_list[1][1].number = 2
  /\ track_list[1][2].number = 3

\* C5: when find_youtube_matches returns, one search was issued per track in
\* list order; every track is in exactly one of matches and not_found, both in
\* input order, and the lengths add up; a track is in not_found exactly when
\* its search returned no result (an error included); a match pairs the track
\* with the first result, with confidence "high" exactly when the substring
\* check holds.
C5_MatchesPartitionTracks ==
  pc = "matched" =>
    LET tl == track_list[1]
        InMatches(t) == \E m \in 1..Len(matches) : matches[m].track = t
        InNotFound(t) == \E n \in 1..Len(not_found) : not_found[n] = t
    IN /\ Len(searchLog) = Len(tl)
       /\ \A k \in 1..Len(tl) : searchLog[k].query = tl[k].artist \o <<" ">> \o tl[k].name
       /\ Len(matches) + Len(not_found) = Len(tl)
       /\ \A k \in 1..Len(tl) :
            /\ InMatches(tl[k]) # InNotFound(tl[k])
            /\ InNotFound(tl[k]) <=> searchLog[k].outcome \in { "empty", "error" }
            /\ InMatches(tl[k]) =>
                 \E m \in 1..Len(matches) :
                   /\ matches[m].track = tl[k]
                   /\ searchLog[k].first = Some(matches[m].youtube)
       /\ \A m \in 1..(Len(matches) - 1) :
            matches[m].track.number < matches[m + 1].track.number
       /\ \A n \in 1..(Len(not_found) - 1) :
            not_found[n].number < not_found[n + 1].number
       /\ \A m \in 1..Len(matches) :
            (matches[m].confidence = "high") <=>
              \/ IsSubstring(LowerStr(matches[m].track.name),
                             LowerStr(matches[m].youtube.title))
              \/ IsSubstring(LowerStr(matches[m].track.artist),
                             LowerStr(matches[m].youtube.title))
       /\ \A m \in 1..Len(matches) : matches[m].confidence \in { "high", "low" }

C5_Witness ==
  /\ pc = "matched"
  /\ Len(track_list[1]) = 3
  /\ Len(matches) = 2
  /\ matches[1].confidence = "low"
  /\ matches[2].confidence = "high"
  /\ searchLog[2].outcome = "error"
  /\ not_found = <<track_list[1][2]>>

\* C6: when add_videos_to_playlist returns, one insert was attempted per
\* element of video_ids, in list order and all against playlist_id; added +
\* failed = len(video_ids); the value returned is the number of inserts that
\* succeeded; the playlist received exactly the ids whose insert succeeded, in
\* list order.
C6_OneInsertPerVideo ==
  pc = "added" =>
    /\ Len(insertLog) = Len(video_ids)
    /\ \A k \in 1..Len(insertLog) :
         /\ insertLog[k].video_id = video_ids[k]
         /\ insertLog[k].playlist_id = yt_playlist_id[1]
    /\ added + failed = Len(video_ids)
    /\ add_result = Some(Cardinality({ k \in 1..Len(insertLog) : insertLog[k].ok }))
    /\ ytItems[yt_playlist_id[1]] = Succeeded(insertLog)
    /\ \A p \in PlaylistIds \ { yt_playlist_id[1] } : ytItems[p] = <<>>

C6_Witness ==
  /\ pc = "added"
  /\ Len(video_ids) = 3
  /\ ~insertLog[1].ok
  /\ insertLog[2].ok
  /\ insertLog[3].ok
  /\ add_result = Some(2)

\* C7: get_youtube_service writes the token file only with credentials it
\* obtained in this call.  Valid cached credentials: no refresh, no login
\* flow, no write.  Invalid, expired, with a refresh token: refreshed and
\* written, no login flow.  Otherwise: a login flow whose credentials are
\* written, unless client_secret.json is missing, and then None is returned
\* with no login flow and the token file untouched.  None is returned in that
\* case only.
C7_SavesOnlyNewCredentials ==
  /\ authLog.writes <= 1
  /\ authLog.writes = 1 =>
       /\ authLog.refreshes + authLog.flows = 1
       /\ tokenFile = creds
  /\ (authLog.writes = 0 /\ "Auth" \in Range(stages)) => tokenFile = loaded
  /\ pc = "authed" =>
       IF loaded # None /\ loaded[1].valid
         THEN /\ authLog = NoAuthLog
              /\ tokenFile = loaded
              /\ youtube = "service"
       ELSE IF loaded # None /\ loaded[1].expired /\ loaded[1].refresh_token
         THEN /\ authLog = [refreshes |-> 1, flows |-> 0, writes |-> 1]
              /\ tokenFile = Some([valid |-> TRUE, expired |-> FALSE, refresh_token |-> TRUE])
              /\ youtube = "service"
       ELSE IF clientSecret
         THEN /\ authLog = [refreshes |-> 0, flows |-> 1, writes |-> 1]
              /\ tokenFile = creds
              /\ creds # None
              /\ creds[1].valid
              /\ youtube = "service"
       ELSE /\ authLog = NoAuthLog
            /\ tokenFile = loaded
            /\ youtube = "none"

C7_Witness ==
  /\ pc = "authed"
  /\ loaded = Some([valid |-> FALSE, expired |-> TRUE, refresh_token |-> TRUE])
  /\ authLog.refreshes = 1
  /\ authLog.writes = 1
  /\ tokenFile # loaded

====
